---- MODULE Spec2Model ----
(***************************************************************************)
(* toyplex: a two-phase primal simplex tableau engine (simplex.py) and the *)
(* branch-and-bound tree built on it (model.py).                           *)
(*                                                                         *)
(* Numbers.  The program computes with floats; the model computes with     *)
(* exact rationals <<n, d>> (d > 0, lowest terms), so that the program's   *)
(* exact comparisons (== 1, == 0, is_integer) are decided exactly.         *)
(* <<1, 0>> and <<-1, 0>> stand for math.inf and -math.inf, <<0, 0>> for   *)
(* None.                                                                   *)
(***************************************************************************)
EXTENDS Integers, Sequences, FiniteSets, TLC

\* ------------------------------------------------------------- bounds
\* pivots one Simplex.solve() may take before the model stops following it
MaxPivots == 12
\* nodes the tree registry may hold before the model stops following the search
MaxNodes == 9

\* ------------------------------------------------------------- status codes
SOLVING == -1
OPTIMAL == 0
UNBOUNDED == 1
INFEASIBLE == 2

\* ------------------------------------------------------------- rationals
Abs(x) == IF x < 0 THEN -x ELSE x

RECURSIVE Gcd(_, _)
Gcd(a, b) == IF b = 0 THEN a ELSE Gcd(b, a % b)

Rat(n, d) ==
  IF d = 1 THEN <<n, 1>>
  ELSE LET s == IF d < 0 THEN -1 ELSE 1
           g == Gcd(Abs(n), Abs(d))
       IN  <<(s * n) \div g, (s * d) \div g>>

Zero == <<0, 1>>
One == <<1, 1>>
Inf == <<1, 0>>
NegInf == <<-1, 0>>
None == <<0, 0>>

FromInt(i) == <<i, 1>>
RNeg(a) == <<-a[1], a[2]>>
RAdd(a, b) == IF a[2] = 1 /\ b[2] = 1 THEN <<a[1] + b[1], 1>>
              ELSE Rat(a[1] * b[2] + b[1] * a[2], a[2] * b[2])
RSub(a, b) == RAdd(a, RNeg(b))
RMul(a, b) == IF a[1] = 0 \/ b[1] = 0 THEN Zero
              ELSE Rat(a[1] * b[1], a[2] * b[2])
RDiv(a, b) == IF b = One THEN a ELSE Rat(a[1] * b[2], a[2] * b[1])
RLt(a, b) ==
  IF a = b THEN FALSE
  ELSE IF a = NegInf \/ b = Inf THEN TRUE
  ELSE IF a = Inf \/ b = NegInf THEN FALSE
  ELSE a[1] * b[2] < b[1] * a[2]
RLe(a, b) == a = b \/ RLt(a, b)
RPos(a) == a[1] > 0
RNonNeg(a) == a[1] >= 0
RNonPos(a) == a[1] <= 0
\* float.is_integer()
IsInteger(a) == a[2] = 1
\* math.floor, math.ceil
Floor(a) == a[1] \div a[2]
Ceil(a) == -((-a[1]) \div a[2])

\* ------------------------------------------------------------- sequences
\* F applied to the value of e, which is computed once
Let(e, F(_)) == CHOOSE r \in {F(x) : x \in {e}} : TRUE

Last(s) == s[Len(s)]
Front(s) == SubSeq(s, 1, Len(s) - 1)
Zeros(n) == [j \in 1..n |-> Zero]

\* np.argmin: the lowest index of a least entry (0 on an empty array is never asked)
ArgMin(s) ==
  CHOOSE i \in 1..Len(s) :
    /\ \A j \in 1..Len(s) : RLe(s[i], s[j])
    /\ \A j \in 1..(i - 1) : RLt(s[i], s[j])

\* ------------------------------------------------------------- Simplex
\* Simplex.__init__
Simplex_init(arg_tab) ==
  [ tab |-> arg_tab,
    constrs |-> Front(arg_tab),
    objective |-> Last(arg_tab),
    n_constrs |-> Len(arg_tab) - 1,
    n_vars |-> Len(arg_tab[1]) - 1,
    n_arts |-> 0,
    iterations |-> 0,
    code |-> SOLVING,
    raised |-> FALSE,
    capped |-> FALSE ]

\* Simplex.indices: (row, column) of every 1 of the constraint rows whose column
\* is 0 in all the other constraint rows, in np.where's row-major order
indices(s) ==
  LET m == s.n_constrs
      n == Len(s.tab[1]) - 1
      pairs == [k \in 1..(m * n) |-> <<((k - 1) \div n) + 1, ((k - 1) % n) + 1>>]
      IsBasic(p) ==
        /\ s.tab[p[1]][p[2]] = One
        /\ Cardinality({r \in 1..m : s.tab[r][p[2]] = Zero}) = m - 1
  IN  SelectSeq(pairs, IsBasic)

\* Simplex.is_canonical
is_canonical(s) ==
  /\ \A r \in 1..Len(s.tab) : RNonNeg(Last(s.tab[r]))
  /\ ~(Len(indices(s)) < s.n_constrs)

\* Simplex.pivot, the row operations on the pivot point (leaves, enters)
pivot_at(s, enters, leaves) ==
  Let([j \in 1..Len(s.tab[leaves]) |-> RDiv(s.tab[leaves][j], s.tab[leaves][enters])],
      LAMBDA prow :
        [s EXCEPT
          !.iterations = @ + 1,
          !.tab = [i \in 1..Len(s.tab) |->
                     IF i = leaves THEN prow
                     ELSE IF s.tab[i][enters] = Zero THEN s.tab[i]
                     ELSE [j \in 1..Len(prow) |->
                             RSub(s.tab[i][j], RMul(s.tab[i][enters], prow[j]))]]])

\* Simplex.pivot, the default pivot point: most negative entry of the last row
\* among the first n_vars columns, least ratio among the constraint rows
pivot_enters(s) == ArgMin(SubSeq(Last(s.tab), 1, s.n_vars))

\* pivot_ratios with a ratio for every nonzero entry, whatever its sign
pivot_ratios_any_sign(s, enters) ==
  [i \in 1..s.n_constrs |->
     IF s.tab[i][enters] # Zero
     THEN RDiv(Last(s.tab[i]), s.tab[i][enters])
     ELSE Inf]

pivot_ratios(s, enters) ==
  [i \in 1..s.n_constrs |->
     IF RPos(s.tab[i][enters])
     THEN RDiv(Last(s.tab[i]), s.tab[i][enters])
     ELSE Inf]

pivot_leaves(s, enters) == ArgMin(pivot_ratios(s, enters))

pivot(s) ==
  Let(pivot_enters(s), LAMBDA enters : pivot_at(s, enters, pivot_leaves(s, enters)))

\* Simplex.should_continue: the code it leaves in self.code (SOLVING: go on)
should_continue_code(s) ==
  LET last == Last(s.tab)
  IN  IF \A k \in 1..s.n_vars : RNonNeg(last[k])
      THEN IF \A i \in 1..s.n_constrs : RNonNeg(Last(s.tab[i]))
           THEN OPTIMAL ELSE INFEASIBLE
      ELSE IF \E k \in 1..s.n_vars :
                /\ ~RNonNeg(last[k])
                /\ \A i \in 1..(Len(s.tab) - 1) : RNonPos(s.tab[i][k])
           THEN UNBOUNDED
           ELSE s.code

should_continue(s) ==
  LET last == Last(s.tab)
  IN  /\ \E k \in 1..s.n_vars : ~RNonNeg(last[k])
      /\ ~\E k \in 1..s.n_vars :
             /\ ~RNonNeg(last[k])
             /\ \A i \in 1..(Len(s.tab) - 1) : RNonPos(s.tab[i][k])

\* the pivot point of the next default pivot is 0: the division of line 151
\* leaves inf and nan in the row
pivot_on_zero(s) == s.tab[pivot_leaves(s, pivot_enters(s))][pivot_enters(s)] = Zero

\* the while loop "while self.should_continue(): self.pivot()" of put_canonical
\* and of solve; capped is set when the model stops following the loop: after
\* MaxPivots pivots, or at a pivot point of 0
RECURSIVE pivot_loop(_)
pivot_loop(s) ==
  IF should_continue(s)
  THEN IF s.iterations >= MaxPivots \/ pivot_on_zero(s) THEN [s EXCEPT !.capped = TRUE]
       ELSE Let(pivot(s), LAMBDA s1 : pivot_loop(s1))
  ELSE [s EXCEPT !.code = should_continue_code(s)]

\* Simplex.put_canonical, lines 66-94: the phase-1 tableau, with one artificial
\* column for each constraint row that indices() names no basic column for, the
\* objective row and below it the artificial objective row.  np.zeros raises
\* ValueError when n_arts < 0 and aux[i][art_j] raises IndexError when more rows
\* lack a basic column than n_arts counts.
put_canonical_rows(s, idx) ==
  LET i_indices == {idx[k][1] : k \in 1..Len(idx)}
      n_arts == s.n_constrs - Len(idx)
      art_i_indices == SelectSeq([i \in 1..s.n_constrs |-> i], LAMBDA i : i \notin i_indices)
      art_j(i) == CHOOSE k \in 1..Len(art_i_indices) : art_i_indices[k] = i
      aux(i) == [j \in 1..n_arts |-> IF i \notin i_indices /\ art_j(i) = j THEN One ELSE Zero]
      art_constr == [i \in 1..s.n_constrs |->
                       Front(s.constrs[i]) \o aux(i) \o <<Last(s.constrs[i])>>]
      width == s.n_vars + n_arts + 1
      sum(j) == LET RECURSIVE acc(_)
                    acc(k) == IF k = 0 THEN Zero
                              ELSE RSub(acc(k - 1), s.constrs[art_i_indices[k]][j])
                IN  acc(Len(art_i_indices))
      art_objective == [j \in 1..width |->
                          IF j = width THEN sum(s.n_vars + 1)
                          ELSE IF j > s.n_vars THEN Zero
                          ELSE sum(j)]
      objective == Front(s.objective) \o Zeros(n_arts) \o <<Last(s.objective)>>
  IN  IF n_arts < 0 \/ Len(art_i_indices) > n_arts
      THEN [s EXCEPT !.n_arts = n_arts, !.raised = TRUE]
      ELSE [s EXCEPT !.n_arts = n_arts,
                     !.tab = art_constr \o <<objective, art_objective>>]

put_canonical_tab(s) == Let(indices(s), LAMBDA idx : put_canonical_rows(s, idx))

\* Simplex.put_canonical, lines 104-118: every artificial column that indices()
\* finds basic after phase 1 is pivoted out on the first nonzero entry of its row
RECURSIVE remove_redundancy(_, _, _)
remove_redundancy(s, idx, k) ==
  IF k > Len(idx) THEN s
  ELSE LET leaves == idx[k][1]
           row == s.tab[leaves]
       IN  IF idx[k][2] > s.n_vars /\ \E j \in 1..s.n_vars : row[j] # Zero
           THEN Let(pivot_at(s, CHOOSE j \in 1..s.n_vars :
                                  /\ row[j] # Zero
                                  /\ \A h \in 1..(j - 1) : row[h] = Zero,
                             leaves),
                    LAMBDA s1 : remove_redundancy(s1, idx, k + 1))
           ELSE remove_redundancy(s, idx, k + 1)

\* the tolerance of line 121
TolDen == 100000

\* Simplex.put_canonical, lines 120-134: the artificial objective decides
put_canonical_end(s) ==
  LET w == Last(Last(s.tab))
      rows == Front(s.tab)
  IN  IF RLe(<<Abs(w[1]), w[2]>>, <<1, TolDen>>)
      THEN [s EXCEPT !.code = SOLVING,
                     !.tab = [i \in 1..Len(rows) |->
                                SubSeq(rows[i], 1, s.n_vars) \o <<Last(rows[i])>>]]
      ELSE [s EXCEPT !.code = INFEASIBLE]

\* Simplex.put_canonical
put_canonical(s) ==
  Let(put_canonical_tab(s), LAMBDA s1 :
    IF s1.raised THEN s1
    ELSE Let(pivot_loop(s1), LAMBDA s2 :
           IF s2.capped THEN s2
           ELSE Let(indices(s2), LAMBDA idx :
                  Let(remove_redundancy(s2, idx, 1), LAMBDA s3 : put_canonical_end(s3)))))

\* Simplex.solve
solve(s) ==
  Let(IF is_canonical(s) THEN s ELSE put_canonical(s), LAMBDA s1 :
    IF s1.raised \/ s1.capped \/ s1.code # SOLVING THEN s1
    ELSE pivot_loop(s1))

\* ------------------------------------------------------------- Node
\* a constraint as LinConstr stores it: coefficients a[j] of the decision
\* variables in creation order, a sense and the right-hand side b; col names the
\* slack ("s", k) or surplus ("p", k) variable Node.add_constr gives it
LinConstr(a, sense, b) == [a |-> a, sense |-> sense, b |-> b, col |-> <<"", 0>>]

\* Var.__le__ / Var.__ge__ with a number: 1 * var <sense> b
VarConstr(n, j, sense, b) ==
  LinConstr([i \in 1..n |-> IF i = j THEN One ELSE Zero], sense, b)

\* Node.__init__
Node_init(key) ==
  [ key |-> key, code |-> SOLVING, sense |-> "min",
    kinds |-> <<>>, n_slacks |-> 0, n_surplus |-> 0, constrs |-> <<>>,
    objval |-> None, objective |-> <<>>, tab |-> <<>>, vals |-> <<>>,
    spx |-> <<>> ]

\* Node.add_constr
add_constr(node, constr) ==
  IF constr.sense = "<="
  THEN [node EXCEPT !.n_slacks = @ + 1,
                    !.constrs = Append(@, [constr EXCEPT !.col = <<"s", node.n_slacks + 1>>])]
  ELSE IF constr.sense = ">="
  THEN [node EXCEPT !.n_surplus = @ + 1,
                    !.constrs = Append(@, [constr EXCEPT !.col = <<"p", node.n_surplus + 1>>])]
  ELSE [node EXCEPT !.constrs = Append(@, constr)]

\* Node.add_var with the default bounds (lb = 0, ub = inf)
Node_add_var(node, type) ==
  LET n1 == [node EXCEPT !.kinds = Append(@, type), !.vals = Append(@, None)]
  IN  IF type = "bin"
      THEN add_constr(n1, VarConstr(Len(n1.kinds), Len(n1.kinds), "<=", One))
      ELSE n1

\* number of tableau columns before the right-hand side
n_cols(node) == Len(node.kinds) + node.n_slacks + node.n_surplus

\* Node.set_tab: columns are the decision variables, then the slacks, then the
\* surplus variables, then the right-hand side; the objective is the last row
set_tab(node) ==
  LET nv == Len(node.kinds)
      row(c) == [j \in 1..(n_cols(node) + 1) |->
                   IF j = n_cols(node) + 1 THEN c.b
                   ELSE IF j <= nv THEN (IF j <= Len(c.a) THEN c.a[j] ELSE Zero)
                   ELSE IF c.col = <<"s", j - nv>> THEN One
                   ELSE IF c.col = <<"p", j - nv - node.n_slacks>> THEN RNeg(One)
                   ELSE Zero]
  IN  [node EXCEPT !.tab = [i \in 1..Len(node.constrs) |-> row(node.constrs[i])]
                            \o <<node.objective>>]

\* an objective expression: coefficients of the decision variables and the entry
\* under the key 'const', if the mapping has one
LinExpr(coeffs, hasconst, const) ==
  [coeffs |-> coeffs, hasconst |-> hasconst, const |-> const]

\* Node.set_objective: the node with its objective row and tableau; the
\* expression object itself loses its 'const' entry (line 107)
set_objective_expr(objexpr) == [objexpr EXCEPT !.hasconst = FALSE, !.const = Zero]

Node_set_objective(node, objexpr, sense) ==
  LET nv == Len(node.kinds)
      objective == [j \in 1..(n_cols(node) + 1) |->
                      IF j = n_cols(node) + 1
                      THEN (IF objexpr.hasconst THEN RNeg(objexpr.const) ELSE Zero)
                      ELSE IF j <= nv /\ j <= Len(objexpr.coeffs) THEN objexpr.coeffs[j]
                      ELSE Zero]
  IN  set_tab([node EXCEPT
                 !.sense = IF sense = "max" THEN "max" ELSE @,
                 !.objective = IF sense = "max"
                               THEN [j \in 1..Len(objective) |-> RNeg(objective[j])]
                               ELSE objective])

\* Node.optimize, lines 148-153: the value of decision variable idx read off
\* the final tableau
extract_val(tab, idx) ==
  LET pos == {i \in 1..(Len(tab) - 1) : RPos(tab[i][idx])}
      arr == {i \in 1..Len(tab) : tab[i][idx] = One}
  IN  IF Cardinality(pos) = 1 /\ Cardinality(arr) = 1
      THEN Last(tab[CHOOSE i \in arr : TRUE])
      ELSE Zero

\* Node.optimize
Node_optimize(node) ==
  Let(solve(Simplex_init(node.tab)), LAMBDA spx :
    IF spx.raised \/ spx.capped THEN [node EXCEPT !.spx = spx]
    ELSE IF spx.code # OPTIMAL THEN [node EXCEPT !.spx = spx, !.code = spx.code]
    ELSE [node EXCEPT
            !.spx = spx,
            !.code = spx.code,
            !.objval = IF node.sense = "min" THEN RNeg(Last(Last(spx.tab)))
                       ELSE Last(Last(spx.tab)),
            !.vals = [idx \in 1..Len(node.kinds) |-> extract_val(spx.tab, idx)]])

\* Node.int_soln: no integer or binary variable holds a fractional value
int_soln(node) ==
  \A j \in 1..Len(node.kinds) : node.kinds[j] \in {"int", "bin"} => IsInteger(node.vals[j])

\* ------------------------------------------------------------- Model
\* icmbkey None
NoKey == -1

\* Model.__init__; nodes[k + 1] is the node of key k
Model_init ==
  [ code |-> SOLVING,
    nodes |-> <<Node_init(0)>>,
    candidates |-> {0},
    icmbkey |-> NoKey,
    icmbval |-> Inf,
    sense |-> "min",
    objkey |-> 0,
    objval |-> Inf,
    objexpr |-> LinExpr(<<>>, FALSE, Zero),
    int_cb |-> <<>>,
    parent_node |-> NoKey,
    child_node |-> NoKey,
    log |-> <<>>,
    raised |-> FALSE,
    halted |-> FALSE ]

\* Model.add_var without bounds
Model_add_var(m, type) == [m EXCEPT !.nodes[1] = Node_add_var(@, type)]

\* Model.add_constr
Model_add_constr(m, constr) == [m EXCEPT !.nodes[1] = add_constr(@, constr)]

\* Model.set_objective
Model_set_objective(m, objexpr, sense) ==
  [m EXCEPT !.nodes[1] = Node_set_objective(@, objexpr, sense),
            !.objexpr = set_objective_expr(objexpr),
            !.sense = IF sense = "max" THEN "max" ELSE @,
            !.objval = IF sense = "max" THEN NegInf ELSE @,
            !.icmbval = IF sense = "max" THEN NegInf ELSE @]

\* the sense-aware strict comparison of update_icmb and branch
better(sense, a, b) ==
  \/ sense = "max" /\ RLt(b, a)
  \/ sense = "min" /\ RLt(a, b)

\* update_icmb without its comparison: the node always becomes the incumbent
update_icmb_unconditional(m, key) ==
  [m EXCEPT !.icmbkey = key, !.icmbval = m.nodes[key + 1].objval,
            !.log = Append(@, <<"icmb", key>>)]

\* Model.update_icmb
update_icmb(m, key) ==
  LET node == m.nodes[key + 1]
  IN  IF better(m.sense, node.objval, m.icmbval)
      THEN [m EXCEPT !.icmbkey = key, !.icmbval = node.objval,
                     !.log = Append(@, <<"icmb", key>>)]
      ELSE m

\* add_node without line 248: the child keeps the status copied from its parent
add_node_keeps_code(m, parent, constr) ==
  LET key == Len(m.nodes)
      copy == [m.nodes[parent + 1] EXCEPT !.key = key]
  IN  [m EXCEPT !.nodes = Append(@, Node_set_objective(add_constr(copy, constr),
                                                       m.objexpr, m.sense)),
                !.objexpr = set_objective_expr(@),
                !.candidates = @ \cup {key}]

\* add_node without copy.deepcopy: the child is the parent object itself, so
\* the registry holds the changed node under both keys
add_node_shared(m, parent, constr) ==
  LET key == Len(m.nodes)
      child == Node_set_objective(
                 add_constr([m.nodes[parent + 1] EXCEPT !.key = key, !.code = SOLVING],
                            constr),
                 m.objexpr, m.sense)
  IN  [m EXCEPT !.nodes = Append([@ EXCEPT ![parent + 1] = child], child),
                !.objexpr = set_objective_expr(@),
                !.candidates = @ \cup {key}]

\* Model.add_node: the child is a deep copy of the parent with one more
\* constraint, its objective row and tableau set again
add_node(m, parent, constr) ==
  LET key == Len(m.nodes)
      copy == [m.nodes[parent + 1] EXCEPT !.key = key, !.code = SOLVING]
  IN  [m EXCEPT !.nodes = Append(@, Node_set_objective(add_constr(copy, constr),
                                                       m.objexpr, m.sense)),
                !.objexpr = set_objective_expr(@),
                !.candidates = @ \cup {key}]

\* value of the left-hand side of a constraint at a point
lhs_val(constr, vals) ==
  LET RECURSIVE acc(_)
      acc(j) == IF j = 0 THEN Zero
                ELSE RAdd(acc(j - 1), RMul(constr.a[j], vals[j]))
  IN  acc(Len(constr.a))

\* a point satisfies a constraint
satisfies(constr, vals) ==
  LET v == lhs_val(constr, vals)
  IN  CASE constr.sense = "<=" -> RLe(v, constr.b)
        [] constr.sense = ">=" -> RLe(constr.b, v)
        [] OTHER -> v = constr.b

\* Model.relax, with the integer-solution callback of lines 390-399 for the cut
\* registered in int_cb: it calls add_lzcut(cut) when the values of parent_node
\* violate the cut, and nothing otherwise.  Model.add_lzcut is the two steps
\* add_node, relax under "cut".
RECURSIVE relax(_, _)

\* add_lzcut without line 241: the child is registered and left unrelaxed
add_lzcut_unrelaxed(m, lzcut) ==
  [add_node(m, m.parent_node, lzcut) EXCEPT !.child_node = Len(m.nodes),
                                            !.parent_node = NoKey]

\* Model.add_lzcut
add_lzcut(m, lzcut) ==
  Let(add_node(m, m.parent_node, lzcut), LAMBDA made :
    Let(relax([made EXCEPT !.child_node = Len(made.nodes) - 1], Len(made.nodes) - 1),
        LAMBDA relaxed :
          IF relaxed.raised \/ relaxed.halted THEN relaxed
          ELSE [relaxed EXCEPT !.parent_node = NoKey]))

\* the callback of lines 390-399 for the cut registered in int_cb
int_cb_call(m) ==
  Let(IF satisfies(m.int_cb[1], m.nodes[m.parent_node + 1].vals) THEN m
      ELSE add_lzcut([m EXCEPT !.log = Append(@, <<"cut", m.parent_node>>)], m.int_cb[1]),
      LAMBDA r : IF r.raised \/ r.halted THEN r
                 ELSE [r EXCEPT !.log = Append(@, <<"ret", m.parent_node>>)])

\* relax without the test of line 329: the node is offered as incumbent
\* whether or not the callback added a lazy cut
relax_node_keeps_cut_off(m, key, node) ==
  LET m1 == [m EXCEPT !.nodes[key + 1] = node, !.log = Append(@, <<"relax", key>>)]
      pruned == [m1 EXCEPT !.candidates = @ \ {key}]
  IN  IF node.code # OPTIMAL
      THEN [pruned EXCEPT !.code = IF node.code = UNBOUNDED THEN UNBOUNDED ELSE @]
      ELSE IF ~int_soln(node) THEN m1
      ELSE IF m.int_cb = <<>> THEN update_icmb(pruned, key)
      ELSE Let(int_cb_call([pruned EXCEPT !.parent_node = key,
                                          !.log = Append(@, <<"cb", key>>)]),
               LAMBDA returned :
                 IF returned.raised \/ returned.halted THEN returned
                 ELSE [update_icmb(returned, key) EXCEPT !.parent_node = NoKey])

\* Model.relax, lines 309-331, on the node as Node.optimize left it
relax_node(m, key, node) ==
  LET m1 == [m EXCEPT !.nodes[key + 1] = node, !.log = Append(@, <<"relax", key>>)]
      pruned == [m1 EXCEPT !.candidates = @ \ {key}]
  IN  IF node.code # OPTIMAL
      THEN [pruned EXCEPT !.code = IF node.code = UNBOUNDED THEN UNBOUNDED ELSE @]
      ELSE IF ~int_soln(node) THEN m1
      ELSE IF m.int_cb = <<>> THEN update_icmb(pruned, key)
      ELSE Let(int_cb_call([pruned EXCEPT !.parent_node = key,
                                          !.log = Append(@, <<"cb", key>>)]),
               LAMBDA returned :
                 IF returned.raised \/ returned.halted THEN returned
                 ELSE IF returned.parent_node # NoKey
                 THEN [update_icmb(returned, key) EXCEPT !.parent_node = NoKey]
                 ELSE returned)

\* Model.relax
relax(m, key) ==
  IF Len(m.nodes) >= MaxNodes THEN [m EXCEPT !.halted = TRUE]
  ELSE Let(Node_optimize(m.nodes[key + 1]), LAMBDA node :
         IF node.spx.raised THEN [m EXCEPT !.nodes[key + 1] = node, !.raised = TRUE]
         ELSE IF node.spx.capped THEN [m EXCEPT !.halted = TRUE]
         ELSE relax_node(m, key, node))

\* the keys of the candidates in the order of the dict: the order in which
\* the nodes were made, which is the order of the keys
RECURSIVE candidates_keys(_)
candidates_keys(S) ==
  IF S = {} THEN <<>>
  ELSE LET least == CHOOSE k \in S : \A o \in S : k <= o
       IN  <<least>> \o candidates_keys(S \ {least})

\* the sort key of candidates_queue: the objective value of the node, inf or
\* -inf when it has none
queue_key(m, k) ==
  LET v == m.nodes[k + 1].objval
  IN  IF v # None THEN v ELSE IF m.sense = "min" THEN Inf ELSE NegInf

\* sorted(): a stable sort, each key put behind the keys already placed that
\* do not come strictly after it; desc is reverse=True, which keeps the order
\* of equal elements as well
RECURSIVE sorted_insert(_, _, _, _)
sorted_insert(m, placed, k, desc) ==
  IF placed = <<>> THEN <<k>>
  ELSE IF (IF desc THEN RLt(queue_key(m, placed[1]), queue_key(m, k))
                   ELSE RLt(queue_key(m, k), queue_key(m, placed[1])))
  THEN <<k>> \o placed
  ELSE <<placed[1]>> \o sorted_insert(m, Tail(placed), k, desc)

RECURSIVE sorted(_, _, _, _)
sorted(m, keys, n, desc) ==
  IF n = 0 THEN <<>>
  ELSE sorted_insert(m, sorted(m, keys, n - 1, desc), keys[n], desc)

\* candidates_queue that sorts upwards for both senses
candidates_queue_upwards(m) ==
  sorted(m, candidates_keys(m.candidates), Cardinality(m.candidates), FALSE)

\* Model.candidates_queue under 'best first'
candidates_queue(m) ==
  sorted(m, candidates_keys(m.candidates), Cardinality(m.candidates), m.sense # "min")

\* Model.optimize, line 367: candidates_queue()[0]
candidates_first(m) == candidates_queue(m)[1]

\* Model.branch, line 340: the first variable, in creation order, whose value
\* is not a whole number (0 if there is none: the [0] raises IndexError)
branch_var(node) ==
  IF \A j \in 1..Len(node.kinds) : IsInteger(node.vals[j]) THEN 0
  ELSE CHOOSE j \in 1..Len(node.kinds) :
         /\ ~IsInteger(node.vals[j])
         /\ \A h \in 1..(j - 1) : IsInteger(node.vals[h])

\* the constraints of the two children of a node branched on variable var
branch_down(node, var) ==
  VarConstr(Len(node.kinds), var, "<=", FromInt(Floor(node.vals[var])))
branch_up(node, var) ==
  VarConstr(Len(node.kinds), var, ">=", FromInt(Ceil(node.vals[var])))

\* Model.branch, lines 345 and 348: add_node for one child, entered in the log
add_child(m, key, constr, side) ==
  [add_node(m, key, constr) EXCEPT !.log = Append(@, <<side, key, Len(m.nodes)>>)]

\* Model.branch
branch(m, key) ==
  LET node == m.nodes[key + 1]
      m1 == [m EXCEPT !.candidates = @ \ {key}, !.log = Append(@, <<"branch", key>>)]
      var == branch_var(node)
  IN  IF var = 0 THEN [m1 EXCEPT !.raised = TRUE]
      ELSE IF ~better(m.sense, node.objval, m.icmbval) THEN m1
      ELSE IF Len(m.nodes) + 2 > MaxNodes THEN [m1 EXCEPT !.halted = TRUE]
      ELSE Let(add_child(m1, key, branch_down(node, var), "down"), LAMBDA left :
             Let(relax(left, Len(left.nodes) - 1), LAMBDA m2 :
               IF m2.raised \/ m2.halted THEN m2
               ELSE Let(add_child(m2, key, branch_up(node, var), "up"), LAMBDA right :
                      relax(right, Len(right.nodes) - 1))))

\* ------------------------------------------------------------- inputs
\* largest absolute value of a coefficient of a drawn constraint or objective
MaxCoef == 2
\* largest right-hand side of a drawn constraint
MaxRhs == 3

IntSeq(s) == [j \in 1..Len(s) |-> FromInt(s[j])]

KindSeqs == {<<"int">>, <<"int", "int">>, <<"cont", "int">>, <<"int", "bin">>}
Senses == {"<=", ">=", "=="}
Coefs(n) == [1..n -> (-1)..MaxCoef]
NonNegCoefs(n) == [1..n -> 0..MaxCoef]
NoCoefs(n) == [j \in 1..n |-> 0]

\* the lazy cuts an integer-solution callback may hold
Cuts(n) == {LinConstr(IntSeq(a), "<=", One) :
              a \in {[j \in 1..n |-> 1], [j \in 1..n |-> IF j = 1 THEN 2 ELSE 0]}}

\* a model as its builder calls give it: the kinds of add_var, the constraints
\* of add_constr, the expression and sense of set_objective, and the callback
\* handed to optimize (<<>>: none; <<cut>>: the callback adding that cut)
Problem(kinds, constrs, objexpr, sn, cb) ==
  [kinds |-> kinds, constrs |-> constrs, objexpr |-> objexpr, sense |-> sn,
   int_cb |-> cb]

\* Scenario 1: maximize 5x + 4y, 3x + 5y <= 78, 4x + y <= 36, x and y continuous
Scenario1 ==
  Problem(<<"cont", "cont">>,
          <<LinConstr(IntSeq(<<3, 5>>), "<=", FromInt(78)),
            LinConstr(IntSeq(<<4, 1>>), "<=", FromInt(36))>>,
          LinExpr(IntSeq(<<5, 4>>), FALSE, Zero), "max", <<>>)

\* the builder calls in the order add_var*, add_constr*, set_objective
RECURSIVE add_vars(_, _, _)
add_vars(m, kinds, k) ==
  IF k > Len(kinds) THEN m ELSE add_vars(Model_add_var(m, kinds[k]), kinds, k + 1)

RECURSIVE add_constrs(_, _, _)
add_constrs(m, constrs, k) ==
  IF k > Len(constrs) THEN m
  ELSE add_constrs(Model_add_constr(m, constrs[k]), constrs, k + 1)

Build(p) ==
  Model_set_objective(
    add_constrs(add_vars(Model_init, p.kinds, 1), p.constrs, 1),
    p.objexpr, p.sense)

\* ------------------------------------------------------------- state
VARIABLES
  problem,      \* the builder calls that made the model
  pc,           \* where Model.optimize stands: built, loop, done, raised, halted
  code, nodes, candidates, icmbkey, icmbval, sense, objkey, objval, objexpr,
  int_cb, parent_node, child_node,  \* the fields of Model
  log,          \* the calls made so far: relax, cb, cut, ret, icmb, branch, down, up
  spx           \* a Simplex object built on a tableau of its own

vars == <<problem, pc, code, nodes, candidates, icmbkey, icmbval, sense, objkey,
          objval, objexpr, int_cb, parent_node, child_node, log, spx>>

\* the Model object as a record, and the assignment of one to the next state
Self ==
  [ code |-> code, nodes |-> nodes, candidates |-> candidates, icmbkey |-> icmbkey,
    icmbval |-> icmbval, sense |-> sense, objkey |-> objkey, objval |-> objval,
    objexpr |-> objexpr, int_cb |-> int_cb, parent_node |-> parent_node,
    child_node |-> child_node, log |-> log, raised |-> FALSE, halted |-> FALSE ]

Becomes(m, next_pc) ==
  /\ code' = m.code
  /\ nodes' = m.nodes
  /\ candidates' = m.candidates
  /\ icmbkey' = m.icmbkey
  /\ icmbval' = m.icmbval
  /\ sense' = m.sense
  /\ objkey' = m.objkey
  /\ objval' = m.objval
  /\ objexpr' = m.objexpr
  /\ int_cb' = m.int_cb
  /\ parent_node' = m.parent_node
  /\ child_node' = m.child_node
  /\ log' = m.log
  /\ pc' = IF m.raised THEN "raised" ELSE IF m.halted THEN "halted" ELSE next_pc
  /\ UNCHANGED <<problem, spx>>

\* one constraint of any sense over one or two variables, no callback
DrawnPlain ==
  \E ks \in KindSeqs :
    \E a \in Coefs(Len(ks)) \ {NoCoefs(Len(ks))}, s \in Senses, b \in 0..MaxRhs :
      \E o \in Coefs(Len(ks)), sn \in {"min", "max"} :
        problem = Problem(ks, <<LinConstr(IntSeq(a), s, FromInt(b))>>,
                          LinExpr(IntSeq(o), FALSE, Zero), sn, <<>>)

\* one <= constraint over one or two variables, with a lazy-cut callback
DrawnLazy ==
  \E ks \in KindSeqs :
    \E a \in NonNegCoefs(Len(ks)) \ {NoCoefs(Len(ks))}, b \in 0..MaxRhs :
      \E o \in Coefs(Len(ks)), sn \in {"min", "max"}, c \in Cuts(Len(ks)) :
        problem = Problem(ks, <<LinConstr(IntSeq(a), "<=", FromInt(b))>>,
                          LinExpr(IntSeq(o), FALSE, Zero), sn, <<c>>)

\* three variables, the last binary, one constraint on the last two and a
\* lazy cut on the first and the last
DrawnLazy3 ==
  \E k \in {"int", "cont"}, s \in Senses, b \in 0..1, o \in (-1)..1,
     sn \in {"min", "max"}, cb \in 0..1 :
    problem = Problem(<<k, "int", "bin">>,
                      <<LinConstr(IntSeq(<<0, -1, 1>>), s, FromInt(b))>>,
                      LinExpr(IntSeq(<<0, o, 0>>), FALSE, Zero), sn,
                      <<LinConstr(IntSeq(<<1, 0, 1>>), "<=", FromInt(cb))>>)

\* the Model object is m
Holds(m) ==
  /\ code = m.code
  /\ nodes = m.nodes
  /\ candidates = m.candidates
  /\ icmbkey = m.icmbkey
  /\ icmbval = m.icmbval
  /\ sense = m.sense
  /\ objkey = m.objkey
  /\ objval = m.objval
  /\ objexpr = m.objexpr
  /\ int_cb = m.int_cb
  /\ parent_node = m.parent_node
  /\ child_node = m.child_node
  /\ log = m.log

\* a model after its builder calls, before optimize()
Init ==
  /\ \/ DrawnPlain
     \/ DrawnLazy
     \/ DrawnLazy3
     \/ problem = Scenario1
  /\ pc = "built"
  /\ \E m \in {Build(problem)} : Holds(m)
  /\ spx = <<>>

\* Model.optimize, lines 353-362: the callback is registered, the root relaxed
OptimizeRoot ==
  /\ pc = "built"
  /\ \E m \in {relax([Self EXCEPT !.int_cb = problem.int_cb], 0)} : Becomes(m, "loop")

\* Model.optimize, lines 366-368: the best candidate is branched
OptimizeBranch ==
  /\ pc = "loop"
  /\ code = SOLVING
  /\ candidates # {}
  /\ \E m \in {branch(Self, candidates_first(Self))} : Becomes(m, "loop")

\* Model.optimize, lines 371-374: no candidate is left; "elif self.icmbkey" is
\* the truth value of the key
icmbkey_truthy(key) == key # NoKey /\ key # 0

OptimizeEmpty ==
  /\ pc = "loop"
  /\ code = SOLVING
  /\ candidates = {}
  /\ Becomes([Self EXCEPT !.code = IF icmbkey_truthy(icmbkey) THEN OPTIMAL
                                   ELSE INFEASIBLE], "loop")

\* Model.optimize, lines 377-386: the values of the incumbent node are copied
\* to the model's variables, which are the root's Var objects
OptimizeFinally ==
  /\ pc = "loop"
  /\ code # SOLVING
  /\ Becomes(IF code = OPTIMAL
             THEN [Self EXCEPT !.objkey = icmbkey,
                               !.objval = icmbval,
                               !.nodes[1].vals = nodes[icmbkey + 1].vals]
             ELSE Self, "done")

Next == OptimizeRoot \/ OptimizeBranch \/ OptimizeEmpty \/ OptimizeFinally

Spec == Init /\ [][Next]_vars

\* ------------------------------------------------------------- Simplex alone
\* largest absolute value of a coefficient, and of a right-hand side, of a
\* drawn tableau
MaxTabCoef == 1
MaxTabRhs == 2

TabCoefs == (-MaxTabCoef)..MaxTabCoef
TabRhs == (-MaxTabRhs)..MaxTabRhs

\* std2 of simplex.py: x1 + 2 x2 + x3 + x4 = 1, -x1 + 2 x3 - x5 = 4,
\* x1 - x2 + 2 x3 = 4, minimize x1 + x2 + x3
std2 ==
  <<IntSeq(<<1, 2, 1, 1, 0, 1>>),
    IntSeq(<<-1, 0, 2, 0, -1, 4>>),
    IntSeq(<<1, -1, 2, 0, 0, 4>>),
    IntSeq(<<1, 1, 1, 0, 0, 0>>)>>

\* a degenerate tableau in canonical form: x1/2 - 11 x2/2 - 5 x3/2 + 9 x4 <= 0,
\* x1/2 - 3 x2/2 - x3/2 + x4 <= 0, x1 <= 1 with their slacks, minimize
\* -10 x1 + 57 x2 + 9 x3 + 24 x4
degenerate ==
  <<<<Rat(1, 2), Rat(-11, 2), Rat(-5, 2), FromInt(9), One, Zero, Zero, Zero>>,
    <<Rat(1, 2), Rat(-3, 2), Rat(-1, 2), One, Zero, One, Zero, Zero>>,
    IntSeq(<<1, 0, 0, 0, 0, 0, 1, 1>>),
    IntSeq(<<-10, 57, 9, 24, 0, 0, 0, 0>>)>>

\* one constraint row over two or three columns
DrawnTab1 ==
  \E n \in 2..3 :
    \E a \in [1..n -> TabCoefs], b \in TabRhs, c \in [1..n -> TabCoefs] :
      problem = <<IntSeq(a \o <<b>>), IntSeq(c \o <<0>>)>>

\* two constraint rows over two columns
DrawnTab2 ==
  \E a1 \in [1..2 -> TabCoefs], a2 \in [1..2 -> TabCoefs], b1 \in TabRhs, b2 \in TabRhs,
     c \in [1..2 -> TabCoefs] :
    problem = <<IntSeq(a1 \o <<b1>>), IntSeq(a2 \o <<b2>>), IntSeq(c \o <<0>>)>>

\* Simplex(arg_tab) on a tableau, beside a Model nothing was added to
InitSimplex ==
  /\ \/ DrawnTab1
     \/ DrawnTab2
     \/ problem = std2
     \/ problem = degenerate
  /\ pc = "tab"
  /\ Holds(Model_init)
  /\ spx = Simplex_init(problem)

\* Simplex.solve()
SimplexSolve ==
  /\ pc = "tab"
  /\ \E s \in {solve(spx)} :
       /\ spx' = s
       /\ pc' = IF s.raised THEN "raised" ELSE IF s.capped THEN "halted" ELSE "solved"
  /\ UNCHANGED <<problem, code, nodes, candidates, icmbkey, icmbval, sense, objkey,
                 objval, objexpr, int_cb, parent_node, child_node, log>>

NextSimplex == SimplexSolve

SpecSimplex == InitSimplex /\ [][NextSimplex]_vars

\* ------------------------------------------------------------- Simplex.solve by steps
\* stage 1 of Simplex.solve, lines 188-189
Stage1 ==
  /\ pc = "tab"
  /\ \E s \in {IF is_canonical(spx) THEN spx ELSE put_canonical(spx)} :
       /\ spx' = s
       /\ pc' = IF s.raised THEN "raised" ELSE IF s.capped THEN "halted"
                ELSE IF s.code # SOLVING THEN "solved" ELSE "phase2"
  /\ UNCHANGED <<problem, code, nodes, candidates, icmbkey, icmbval, sense, objkey,
                 objval, objexpr, int_cb, parent_node, child_node, log>>

\* one turn of the loop of stage 2, lines 193-194: a default pivot
Phase2Pivot ==
  /\ pc = "phase2"
  /\ should_continue(spx)
  /\ \E stop \in {spx.iterations >= MaxPivots \/ pivot_on_zero(spx)} :
       /\ spx' = IF stop THEN [spx EXCEPT !.capped = TRUE] ELSE pivot(spx)
       /\ pc' = IF stop THEN "halted" ELSE "phase2"
  /\ UNCHANGED <<problem, code, nodes, candidates, icmbkey, icmbval, sense, objkey,
                 objval, objexpr, int_cb, parent_node, child_node, log>>

\* the end of the loop of stage 2: should_continue() sets the status
Phase2Stop ==
  /\ pc = "phase2"
  /\ ~should_continue(spx)
  /\ spx' = [spx EXCEPT !.code = should_continue_code(spx)]
  /\ pc' = "solved"
  /\ UNCHANGED <<problem, code, nodes, candidates, icmbkey, icmbval, sense, objkey,
                 objval, objexpr, int_cb, parent_node, child_node, log>>

NextPhases == Stage1 \/ Phase2Pivot \/ Phase2Stop

SpecPhases == InitSimplex /\ [][NextPhases]_vars

\* ------------------------------------------------------------- Simplex.solve by pivots
UnchangedButSpx ==
  UNCHANGED <<problem, code, nodes, candidates, icmbkey, icmbval, sense, objkey,
              objval, objexpr, int_cb, parent_node, child_node, log>>

\* stage 1 of Simplex.solve up to the loop of put_canonical, lines 66-94: a
\* canonical tableau goes to stage 2 as it is
Phase1Start ==
  /\ pc = "tab"
  /\ \E s \in {IF is_canonical(spx) THEN spx ELSE put_canonical_tab(spx)} :
       /\ spx' = s
       /\ pc' = IF is_canonical(spx) THEN "phase2"
                ELSE IF s.raised THEN "raised" ELSE "phase1"
  /\ UnchangedButSpx

\* one turn of the loop of put_canonical, lines 101-102: a default pivot
Phase1Pivot ==
  /\ pc = "phase1"
  /\ should_continue(spx)
  /\ \E stop \in {spx.iterations >= MaxPivots \/ pivot_on_zero(spx)} :
       /\ spx' = IF stop THEN [spx EXCEPT !.capped = TRUE] ELSE pivot(spx)
       /\ pc' = IF stop THEN "halted" ELSE "phase1"
  /\ UnchangedButSpx

\* the end of the loop of put_canonical and the rest of it, lines 104-134
Phase1Stop ==
  /\ pc = "phase1"
  /\ ~should_continue(spx)
  /\ \E s2 \in {[spx EXCEPT !.code = should_continue_code(spx)]} :
       \E s \in {put_canonical_end(remove_redundancy(s2, indices(s2), 1))} :
         /\ spx' = s
         /\ pc' = IF s.code # SOLVING THEN "solved" ELSE "phase2"
  /\ UnchangedButSpx

NextPivots == Phase1Start \/ Phase1Pivot \/ Phase1Stop \/ Phase2Pivot \/ Phase2Stop

SpecPivots == InitSimplex /\ [][NextPivots]_vars

\* ------------------------------------------------------------- add_var alone
MaxVars == 2
MaxBound == 2

\* name=None
NoName == ""

\* the names, lower bounds and upper bounds a call may pass; None is an
\* argument left out
Names == {"x", "y", "z"}
Lbs == {None} \cup {FromInt(i) : i \in 0..MaxBound}
Ubs == {None} \cup {FromInt(i) : i \in 1..MaxBound}

\* Node.add_var, lines 43-65, with its bounds: only a continuous variable gets
\* its bound constraints, a binary one gets var <= 1
Node_add_var_bounds(node, type, lb, ub) ==
  LET n1 == [node EXCEPT !.kinds = Append(@, type), !.vals = Append(@, None)]
      j == Len(n1.kinds)
      n2 == IF RPos(lb) THEN add_constr(n1, VarConstr(j, j, ">=", lb)) ELSE n1
      n3 == IF ub # Inf THEN add_constr(n2, VarConstr(j, j, "<=", ub)) ELSE n2
  IN  IF type = "cont" THEN n3
      ELSE IF type = "bin" THEN add_constr(n1, VarConstr(j, j, "<=", One))
      ELSE n1

\* the key Node.add_var stores the variable under: the name, or the letter of
\* the kind and the rank of the variable within its kind
Node_var_name(node, type, name) ==
  LET rank == Cardinality({i \in 1..Len(node.kinds) : node.kinds[i] = type}) + 1
      letter == IF type = "cont" THEN "x" ELSE IF type = "bin" THEN "b" ELSE "i"
  IN  IF name = NoName THEN letter \o ToString(rank) ELSE name

\* Model.add_var, lines 212-218: the call of Node.add_var on the root; with
\* both bounds given none of the three branches is taken
Model_add_var_bounds(m, type, lb, ub) ==
  IF lb = None /\ ub = None
  THEN [m EXCEPT !.nodes[1] = Node_add_var_bounds(@, type, Zero, Inf)]
  ELSE IF lb = None
  THEN [m EXCEPT !.nodes[1] = Node_add_var_bounds(@, type, Zero, ub)]
  ELSE IF ub = None
  THEN [m EXCEPT !.nodes[1] = Node_add_var_bounds(@, type, lb, Inf)]
  ELSE m

\* the keys of the root's vars after the calls made so far
VarNames == {problem[i].key : i \in 1..Len(problem)} \ {NoName}

\* a Model nothing was added to; problem holds the add_var calls made so far
InitAddVar ==
  /\ problem = <<>>
  /\ pc = "adding"
  /\ Holds(Model_init)
  /\ spx = <<>>

\* Model.add_var(type, lb, ub, name) with a name no variable has yet; line 231
\* returns self.nodes[0].vars[name], a KeyError when name is not a key
AddVar ==
  /\ pc = "adding"
  /\ Len(problem) < MaxVars
  /\ \E type \in {"cont", "int", "bin"}, lb \in Lbs, ub \in Ubs,
        name \in (Names \ VarNames) \cup {NoName} :
       \E m \in {Model_add_var_bounds(Self, type, lb, ub)} :
         LET made == Len(m.nodes[1].kinds) > Len(nodes[1].kinds)
             key == IF made THEN Node_var_name(nodes[1], type, name) ELSE NoName
             keys == VarNames \cup (IF made THEN {key} ELSE {})
             out == IF name \in keys THEN name ELSE "KeyError"
         IN  /\ nodes' = m.nodes
             /\ problem' = Append(problem,
                  [type |-> type, lb |-> lb, ub |-> ub, name |-> name,
                   made |-> made, key |-> key, out |-> out,
                   added |-> SubSeq(m.nodes[1].constrs, Len(nodes[1].constrs) + 1,
                                    Len(m.nodes[1].constrs))])
             /\ pc' = IF out = "KeyError" THEN "raised" ELSE "adding"
  /\ UNCHANGED <<code, candidates, icmbkey, icmbval, sense, objkey, objval, objexpr,
                 int_cb, parent_node, child_node, log, spx>>

NextAddVar == AddVar

SpecAddVar == InitAddVar /\ [][NextAddVar]_vars

\* ------------------------------------------------------------- components alone
MaxExprCoef == 1
MaxNum == 1

\* the names of the variables of an expression
ExprNames == {"x", "y"}

\* the coeffs of a LinExpr: a dict from names and 'const' to numbers
Dicts ==
  UNION {[D -> (-MaxExprCoef)..MaxExprCoef] : D \in SUBSET (ExprNames \cup {"const"})}

\* an operand of + and -: a number, a Var or a LinExpr
Num(v) == [kind |-> "num", val |-> v, name |-> "", coeffs |-> <<>>]
AVar(name) == [kind |-> "var", val |-> 0, name |-> name, coeffs |-> <<>>]
Expr(coeffs) == [kind |-> "expr", val |-> 0, name |-> "", coeffs |-> coeffs]
Operands ==
  {Num(v) : v \in (-MaxNum)..MaxNum} \cup {AVar(n) : n \in ExprNames}
    \cup {Expr(c) : c \in Dicts}

\* coeffs[key] = v
Put(coeffs, key, v) ==
  [k \in DOMAIN coeffs \cup {key} |-> IF k = key THEN v ELSE coeffs[k]]

\* Var.__neg__
Var__neg__(name) == name :> -1

\* LinExpr.__neg__
LinExpr__neg__(coeffs) == [k \in DOMAIN coeffs |-> -coeffs[k]]

\* -other for a number, a Var or a LinExpr
Neg(other) ==
  IF other.kind = "num" THEN Num(-other.val)
  ELSE IF other.kind = "var" THEN Expr(Var__neg__(other.name))
  ELSE Expr(LinExpr__neg__(other.coeffs))

\* LinExpr.__add__ and __radd__
LinExpr__add__(coeffs, other) ==
  IF other.kind = "num"
  THEN Put(coeffs, "const",
           IF "const" \in DOMAIN coeffs THEN coeffs["const"] + other.val ELSE other.val)
  ELSE IF other.kind = "var"
  THEN Put(coeffs, other.name,
           IF other.name \in DOMAIN coeffs THEN coeffs[other.name] + 1 ELSE 1)
  ELSE [k \in DOMAIN coeffs \cup DOMAIN other.coeffs |->
          IF k \notin DOMAIN other.coeffs THEN coeffs[k]
          ELSE IF k \in DOMAIN coeffs THEN coeffs[k] + other.coeffs[k]
          ELSE other.coeffs[k]]

\* LinExpr.__sub__ with the sign of __add__
LinExpr__sub__as_add(coeffs, other) == LinExpr__add__(coeffs, other)

\* LinExpr.__sub__
LinExpr__sub__(coeffs, other) ==
  IF other.kind = "num"
  THEN Put(coeffs, "const",
           IF "const" \in DOMAIN coeffs THEN coeffs["const"] - other.val ELSE -other.val)
  ELSE IF other.kind = "var"
  THEN Put(coeffs, other.name,
           IF other.name \in DOMAIN coeffs THEN coeffs[other.name] - 1 ELSE -1)
  ELSE [k \in DOMAIN coeffs \cup DOMAIN other.coeffs |->
          IF k \notin DOMAIN other.coeffs THEN coeffs[k]
          ELSE IF k \in DOMAIN coeffs THEN coeffs[k] - other.coeffs[k]
          ELSE -other.coeffs[k]]

\* LinExpr.__rsub__
LinExpr__rsub__(coeffs, other) == LinExpr__neg__(LinExpr__sub__(coeffs, other))

\* Var.__add__ and __radd__
Var__add__(name, other) ==
  IF other.kind = "num" THEN (name :> 1) @@ ("const" :> other.val)
  ELSE IF other.kind = "var"
  THEN (IF other.name = name THEN name :> 2 ELSE (name :> 1) @@ (other.name :> 1))
  ELSE LinExpr__add__(other.coeffs, AVar(name))

\* Var.__sub__
Var__sub__(name, other) == Var__add__(name, Neg(other))

\* Var.__rsub__
Var__rsub__(name, other) == LinExpr__neg__(Var__sub__(name, other))

\* a + b as Python dispatches it: the method of a, or the reflected method of b
\* when a is a number
Plus(a, b) ==
  IF a.kind = "var" THEN Var__add__(a.name, b)
  ELSE IF a.kind = "expr" THEN LinExpr__add__(a.coeffs, b)
  ELSE IF b.kind = "var" THEN Var__add__(b.name, a)
  ELSE LinExpr__add__(b.coeffs, a)

\* a - b as Python dispatches it
Minus(a, b) ==
  IF a.kind = "var" THEN Var__sub__(a.name, b)
  ELSE IF a.kind = "expr" THEN LinExpr__sub__(a.coeffs, b)
  ELSE IF b.kind = "var" THEN Var__rsub__(b.name, a)
  ELSE LinExpr__rsub__(b.coeffs, a)

\* the operands after a + b or a - b returned out: a LinExpr operand is changed
\* in place and returned, the left one first
After(a, b, out) ==
  IF a.kind = "expr" THEN <<Expr(out), b>>
  ELSE IF b.kind = "expr" THEN <<a, Expr(out)>>
  ELSE <<a, b>>

\* LinConstr.__init__ with b = coeffs['const']
LinConstr_init_plus_const(lhs, sn, rhs) ==
  LET l == IF "const" \in DOMAIN lhs THEN lhs ELSE Put(lhs, "const", 0)
      r == IF "const" \in DOMAIN rhs THEN rhs ELSE Put(rhs, "const", 0)
      coeffs == LinExpr__sub__(l, Expr(r))
  IN  [lhs |-> l, sense |-> sn, rhs |-> r, b |-> coeffs["const"],
       coeffs |-> [k \in DOMAIN coeffs \ {"const"} |-> coeffs[k]]]

\* LinConstr.__init__: lhs and rhs get a 'const' entry, coeffs is a copy of
\* lhs.coeffs minus rhs.coeffs key by key, b is minus its 'const' entry, which
\* is then deleted
LinConstr_init(lhs, sn, rhs) ==
  LET l == IF "const" \in DOMAIN lhs THEN lhs ELSE Put(lhs, "const", 0)
      r == IF "const" \in DOMAIN rhs THEN rhs ELSE Put(rhs, "const", 0)
      coeffs == [k \in DOMAIN l \cup DOMAIN r |->
                   IF k \notin DOMAIN r THEN l[k]
                   ELSE IF k \in DOMAIN l THEN l[k] - r[k]
                   ELSE -r[k]]
  IN  [lhs |-> l, sense |-> sn, rhs |-> r, b |-> -coeffs["const"],
       coeffs |-> [k \in DOMAIN coeffs \ {"const"} |-> coeffs[k]]]

\* 1 * var, LinExpr({'const': number}) or the expression itself: the sides
\* __eq__, __le__ and __ge__ hand to LinConstr
Side(operand) ==
  IF operand.kind = "num" THEN "const" :> operand.val
  ELSE IF operand.kind = "var" THEN operand.name :> 1
  ELSE operand.coeffs

\* two operands, not both numbers
InitExpr ==
  /\ \E a \in Operands, b \in Operands :
       /\ a.kind # "num" \/ b.kind # "num"
       /\ problem = [a |-> a, b |-> b]
  /\ pc = "operands"
  /\ Holds(Model_init)
  /\ spx = <<>>

\* a + b or a - b
Arith ==
  /\ pc = "operands"
  /\ \E op \in {"+", "-"} :
       \E out \in {IF op = "+" THEN Plus(problem.a, problem.b)
                   ELSE Minus(problem.a, problem.b)} :
         spx' = [op |-> op, out |-> out, after |-> After(problem.a, problem.b, out)]
  /\ pc' = "expr"
  /\ UNCHANGED <<problem, code, nodes, candidates, icmbkey, icmbval, sense, objkey,
                 objval, objexpr, int_cb, parent_node, child_node, log>>

\* a == b, a <= b or a >= b with a Var or a LinExpr on the left; Var.__eq__ has
\* no branch for a LinExpr on the right and returns None
Compare ==
  /\ pc = "operands"
  /\ problem.a.kind # "num"
  /\ \E sn \in {"==", "<=", ">="} :
       \E none \in {sn = "==" /\ problem.a.kind = "var" /\ problem.b.kind = "expr"} :
         spx' = [op |-> sn, built |-> ~none,
                 out |-> IF none THEN <<>>
                         ELSE LinConstr_init(Side(problem.a), sn, Side(problem.b))]
  /\ pc' = "constr"
  /\ UNCHANGED <<problem, code, nodes, candidates, icmbkey, icmbval, sense, objkey,
                 objval, objexpr, int_cb, parent_node, child_node, log>>

NextExpr == Arith \/ Compare

SpecExpr == InitExpr /\ [][NextExpr]_vars

\* ------------------------------------------------------------- builder calls in any order
\* most decision variables and most constraints the calls make, the nonzero
\* coefficient and the largest right-hand side of a constraint they add
MaxCallVars == 2
MaxCallConstrs == 2
MaxCallCoef == 2
MaxCallRhs == 1

\* a Model nothing was called on
InitCalls ==
  /\ problem = <<>>
  /\ pc = "build"
  /\ Holds(Model_init)
  /\ spx = <<>>

\* m.add_var(type=type), called while the objective is not set
CallAddVar ==
  /\ pc = "build"
  /\ nodes[1].tab = <<>>
  /\ Len(nodes[1].kinds) < MaxCallVars
  /\ \E type \in {"cont", "int"} : Becomes(Model_add_var(Self, type), "build")

\* m.add_constr(constr), a constraint over the variables made so far
CallAddConstr ==
  /\ pc = "build"
  /\ Len(nodes[1].kinds) > 0
  /\ Len(nodes[1].constrs) < MaxCallConstrs
  /\ \E a \in [1..Len(nodes[1].kinds) -> {0, MaxCallCoef}] \ {NoCoefs(Len(nodes[1].kinds))},
        s \in {"<=", ">="}, b \in 1..MaxCallRhs :
       Becomes(Model_add_constr(Self, LinConstr(IntSeq(a), s, FromInt(b))), "build")

\* m.set_objective(objexpr, sense=sn), called on a model with a constraint
CallSetObjective ==
  /\ pc = "build"
  /\ Len(nodes[1].constrs) > 0
  /\ \E o \in [1..Len(nodes[1].kinds) -> (-1)..1], sn \in {"min", "max"} :
       Becomes(Model_set_objective(Self, LinExpr(IntSeq(o), FALSE, Zero), sn), "build")

\* m.optimize() without a callback, lines 353-362: the root is relaxed on the
\* tableau it holds; Simplex.__init__ raises TypeError on the tab None of a
\* node no objective was set on
CallOptimize ==
  /\ pc = "build"
  /\ \E m \in {IF nodes[1].tab = <<>> THEN [Self EXCEPT !.raised = TRUE]
               ELSE relax(Self, 0)} :
       Becomes(m, "loop")

NextCalls ==
  \/ CallAddVar
  \/ CallAddConstr
  \/ CallSetObjective
  \/ CallOptimize
  \/ OptimizeBranch
  \/ OptimizeEmpty
  \/ OptimizeFinally

SpecCalls == InitCalls /\ [][NextCalls]_vars

\* ------------------------------------------------------------- objective with a constant
\* largest constant term of a drawn objective
MaxConst == 1

\* one constraint of any sense over one or two variables, the objective with
\* an entry under 'const', no callback
DrawnConst ==
  \E ks \in KindSeqs :
    \E a \in Coefs(Len(ks)) \ {NoCoefs(Len(ks))}, s \in Senses, b \in 0..MaxRhs :
      \E o \in Coefs(Len(ks)), c \in 1..MaxConst, sn \in {"min", "max"} :
        problem = Problem(ks, <<LinConstr(IntSeq(a), s, FromInt(b))>>,
                          LinExpr(IntSeq(o), TRUE, FromInt(c)), sn, <<>>)

\* a model after its builder calls, before optimize()
InitConst ==
  /\ DrawnConst
  /\ pc = "built"
  /\ \E m \in {Build(problem)} : Holds(m)
  /\ spx = <<>>

SpecConst == InitConst /\ [][Next]_vars

\* ------------------------------------------------------------- properties
\* the positions of the log that hold event e of node k
Events(e, k) == {i \in 1..Len(log) : log[i][1] = e /\ log[i][2] = k}

\* the constraints of the root model, the upper bound of each binary included
RootConstrs == nodes[1].constrs

\* the objective expression of the builder call at a point
ObjAt(vals) ==
  RAdd(lhs_val([a |-> problem.objexpr.coeffs], vals),
       IF problem.objexpr.hasconst THEN problem.objexpr.const ELSE Zero)

\* a point satisfies every constraint of a sequence
SatisfiesAll(constrs, vals) == \A i \in 1..Len(constrs) : satisfies(constrs[i], vals)

\* C1: when optimize() finds no candidate left while the status is still
\* solving, the status becomes optimal if an incumbent was recorded, the root
\* (key 0) included, and infeasible only if none was.
C1_EmptyCandidatesStatus ==
  [][(pc = "loop" /\ code = SOLVING /\ candidates = {})
       => code' = IF icmbkey # NoKey THEN OPTIMAL ELSE INFEASIBLE]_vars

\* C2: Scenario 1 (maximize 5x + 4y, 3x + 5y <= 78, 4x + y <= 36, x and y
\* continuous) ends with status optimal, objective value 78 and (x, y) = (6, 12).
C2_Scenario1Optimal ==
  (problem = Scenario1 /\ pc = "done") =>
    /\ code = OPTIMAL
    /\ objval = FromInt(78)
    /\ nodes[1].vals = IntSeq(<<6, 12>>)

\* every variable is integer or binary and some root constraint with no
\* negative coefficient bounds it: no feasible value exceeds MaxRhs
BoundedInts ==
  \A j \in 1..Len(problem.kinds) :
    /\ problem.kinds[j] \in {"int", "bin"}
    /\ \E i \in 1..Len(RootConstrs) :
         /\ RootConstrs[i].sense \in {"<=", "=="}
         /\ \A h \in 1..Len(RootConstrs[i].a) : RNonNeg(RootConstrs[i].a[h])
         /\ RLe(One, RootConstrs[i].a[j])

\* the whole-valued points that satisfy every root constraint
IntPoints ==
  {pt \in {IntSeq(q) : q \in [1..Len(problem.kinds) -> 0..MaxRhs]} :
     SatisfiesAll(RootConstrs, pt)}

\* C3: for a model whose integer variables are bounded, an optimal end reports
\* the best objective value over all whole-valued points that satisfy the root
\* constraints (exhaustive enumeration); no such point is strictly better.
C3_OptimalIsBestOfEnumeration ==
  (pc = "done" /\ code = OPTIMAL /\ BoundedInts) =>
    /\ \E pt \in IntPoints : ObjAt(pt) = objval
    /\ \A pt \in IntPoints : ~better(sense, ObjAt(pt), objval)

\* C4: at an optimal end the values on the model's variables are those of the
\* incumbent node, integer variables whole, binary variables 0 or 1, every root
\* constraint satisfied, and the reported objective value is the objective
\* expression at those values.
C4_ExposedValuesFeasible ==
  (pc = "done" /\ code = OPTIMAL) =>
    /\ nodes[1].vals = nodes[icmbkey + 1].vals
    /\ \A j \in 1..Len(problem.kinds) :
         /\ problem.kinds[j] = "int" => IsInteger(nodes[1].vals[j])
         /\ problem.kinds[j] = "bin" => nodes[1].vals[j] \in {Zero, One}
    /\ SatisfiesAll(RootConstrs, nodes[1].vals)
    /\ objval = ObjAt(nodes[1].vals)

\* C5: the global status is unbounded if and only if the root relaxation is
\* unbounded; an unbounded relaxation of another node leaves it at solving.
C5_UnboundedIffRootUnbounded ==
  pc \in {"loop", "done"} => ((code = UNBOUNDED) <=> (nodes[1].code = UNBOUNDED))

\* largest entry of an enumerated point or multiplier of the tableau oracles
MaxPoint == 2

\* sum of u[i] * v[i]
Dot(u, v) ==
  LET RECURSIVE acc(_)
      acc(j) == IF j = 0 THEN Zero ELSE RAdd(acc(j - 1), RMul(u[j], v[j]))
  IN  acc(Len(u))

\* some point x >= 0 with whole entries up to MaxPoint satisfies every
\* constraint row of the tableau
HasFeasiblePoint(tab) ==
  LET n == Len(tab[1]) - 1
  IN  \E q \in [1..n -> 0..MaxPoint] :
        \A i \in 1..(Len(tab) - 1) : Dot(SubSeq(tab[i], 1, n), IntSeq(q)) = tab[i][n + 1]

\* some combination y of the constraint rows has no negative coefficient and a
\* negative right-hand side: no x >= 0 satisfies the rows (Farkas)
HasNoFeasiblePoint(tab) ==
  LET n == Len(tab[1]) - 1
      m == Len(tab) - 1
      col(j) == [i \in 1..m |-> tab[i][j]]
  IN  \E y \in [1..m -> (-MaxPoint)..MaxPoint] :
        /\ \A j \in 1..n : RNonNeg(Dot(col(j), IntSeq(y)))
        /\ ~RNonNeg(Dot(col(n + 1), IntSeq(y)))

\* C6: whatever the signs of the right-hand sides, Simplex.solve() on a
\* feasible system never ends infeasible, and on an infeasible system never
\* ends optimal or unbounded.
C6_InfeasibleIffNoFeasiblePoint ==
  pc = "solved" =>
    /\ HasFeasiblePoint(problem) => spx.code # INFEASIBLE
    /\ HasNoFeasiblePoint(problem) => spx.code \notin {OPTIMAL, UNBOUNDED}

\* C7: with a callback that adds the lazy cut exactly when the integral
\* solution it is shown violates it, every node recorded as incumbent, and so
\* the final incumbent, satisfies the cut.
C7_IncumbentsSatisfyCut ==
  int_cb # <<>> =>
    /\ \A i \in 1..Len(log) :
         log[i][1] = "icmb" => satisfies(int_cb[1], nodes[log[i][2] + 1].vals)
    /\ icmbkey # NoKey => satisfies(int_cb[1], nodes[icmbkey + 1].vals)

\* the callback cut off an integral node and a later node became the final
\* incumbent
C7_CutThenIncumbent ==
  /\ pc = "done"
  /\ int_cb # <<>>
  /\ icmbkey # NoKey
  /\ \E i \in 1..Len(log) :
       /\ log[i][1] = "cut"
       /\ ~satisfies(int_cb[1], nodes[log[i][2] + 1].vals)
       /\ \E j \in (i + 1)..Len(log) : log[j][1] = "icmb"

\* the node a lazy cut of the log position i made: the one relaxed next, whose
\* last constraint is the cut
IsCutChild(i, k) ==
  /\ i + 1 <= Len(log)
  /\ log[i + 1] = <<"relax", k>>
  /\ [Last(nodes[k + 1].constrs) EXCEPT !.col = <<"", 0>>] = int_cb[1]

\* C8: with a callback registered, relax() calls it exactly once for each node
\* whose relaxation is feasible and integral, and for no other, before any
\* incumbent update for the node; if the callback adds a lazy cut the node is
\* not recorded as incumbent, and the cut's child is relaxed before the
\* callback returns, nested cuts included.
C8_CallbackOncePerIntegralNode ==
  (pc = "loop" /\ int_cb # <<>>) =>
    \A k \in 0..(Len(nodes) - 1) :
      /\ Cardinality(Events("cb", k)) =
           IF /\ Events("relax", k) # {}
              /\ nodes[k + 1].code = OPTIMAL
              /\ int_soln(nodes[k + 1])
           THEN 1 ELSE 0
      /\ \A i \in Events("icmb", k) : \E j \in Events("cb", k) : j < i
      /\ \A i \in Events("cut", k) :
           /\ Events("icmb", k) = {}
           /\ \E c \in 0..(Len(nodes) - 1) : IsCutChild(i, c)
           /\ \E r \in Events("ret", k) : i + 1 < r
           /\ \E j \in Events("cb", k) : j < i

\* a lazy cut whose child is itself integral and is shown to the callback
\* before the callback of its parent returns
C8_NestedCallback ==
  /\ pc = "loop"
  /\ \E i \in 1..(Len(log) - 4) : \E k \in 0..(Len(nodes) - 1) : \E c \in 0..(Len(nodes) - 1) :
       /\ log[i] = <<"cb", k>>
       /\ log[i + 1] = <<"cut", k>>
       /\ log[i + 2] = <<"relax", c>>
       /\ log[i + 3] = <<"cb", c>>
       /\ Events("ret", k) # {}

\* C9: every change of the incumbent strictly improves it (smaller for min,
\* larger for max), and the incumbent key names a registered node whose
\* relaxation was optimal and integral and whose objective value is the
\* incumbent value.
C9_IncumbentStrictlyImproves ==
  /\ \A i \in 1..Len(log) : \A j \in 1..Len(log) :
       (i < j /\ log[i][1] = "icmb" /\ log[j][1] = "icmb") =>
         better(sense, nodes[log[j][2] + 1].objval, nodes[log[i][2] + 1].objval)
  /\ icmbkey = NoKey => icmbval = IF sense = "max" THEN NegInf ELSE Inf
  /\ icmbkey # NoKey =>
       /\ icmbkey \in 0..(Len(nodes) - 1)
       /\ nodes[icmbkey + 1].key = icmbkey
       /\ nodes[icmbkey + 1].code = OPTIMAL
       /\ int_soln(nodes[icmbkey + 1])
       /\ icmbval = nodes[icmbkey + 1].objval
       /\ Events("icmb", icmbkey) # {}

\* the incumbent changed at least twice
C9_TwoUpdates ==
  \E i \in 1..Len(log) : \E j \in 1..Len(log) :
    i < j /\ log[i][1] = "icmb" /\ log[j][1] = "icmb"

\* the points of a node's variables: whole values up to MaxRhs for integer and
\* binary variables, halves up to MaxRhs for continuous ones
GridPoints(node) ==
  LET n == Len(node.kinds)
  IN  {[j \in 1..n |-> IF node.kinds[j] = "cont" THEN Rat(q[j], 2)
                       ELSE FromInt(q[j] \div 2)] :
         q \in [1..n -> 0..(2 * MaxRhs)]}

\* C10: the two children branch() makes for a node with branching value v add
\* var <= floor(v) and var >= ceil(v) on the same variable; no point satisfies
\* both, and every point of the parent with its integer and binary variables
\* whole is feasible in one of the two children.
C10_ChildrenDisjointAndCover ==
  pc = "loop" =>
    \A i \in 1..Len(log) : \A j \in 1..Len(log) :
      (log[i][1] = "down" /\ log[j][1] = "up" /\ log[i][2] = log[j][2] /\ i < j) =>
        LET parent == nodes[log[i][2] + 1]
            left == nodes[log[i][3] + 1]
            right == nodes[log[j][3] + 1]
            var == branch_var(parent)
            n == Len(parent.kinds)
        IN  /\ var # 0
            /\ left.constrs = Append(parent.constrs,
                 [branch_down(parent, var) EXCEPT !.col = Last(left.constrs).col])
            /\ right.constrs = Append(parent.constrs,
                 [branch_up(parent, var) EXCEPT !.col = Last(right.constrs).col])
            /\ \A pt \in GridPoints(parent) :
                 /\ ~(satisfies(Last(left.constrs), pt) /\ satisfies(Last(right.constrs), pt))
                 /\ SatisfiesAll(parent.constrs, pt) =>
                      \/ SatisfiesAll(left.constrs, pt)
                      \/ SatisfiesAll(right.constrs, pt)

\* the constraints branch() or the callback would hand to add_node for node k
ChildConstrs(k) ==
  (IF nodes[k + 1].code = OPTIMAL /\ branch_var(nodes[k + 1]) # 0
   THEN {branch_down(nodes[k + 1], branch_var(nodes[k + 1])),
         branch_up(nodes[k + 1], branch_var(nodes[k + 1]))}
   ELSE {})
  \cup (IF int_cb # <<>> THEN {int_cb[1]} ELSE {})

\* the constraint list, slack and surplus counts, tableau and status agree
SameFrame(a, b) ==
  /\ a.constrs = b.constrs
  /\ a.n_slacks = b.n_slacks
  /\ a.n_surplus = b.n_surplus
  /\ a.tab = b.tab
  /\ a.code = b.code

\* C11: creating a child node, by branching or by a lazy cut, leaves the
\* constraint list, slack and surplus sets, tableau and status of the parent and
\* of every other registered node unchanged, and the child's constraint list is
\* the parent's list followed by exactly one new constraint.
C11_AddNodeLeavesOthers ==
  pc \in {"loop", "done"} =>
    /\ \A k \in 0..(Len(nodes) - 1) : \A c \in ChildConstrs(k) :
         LET made == add_node(Self, k, c).nodes
         IN  /\ Len(made) = Len(nodes) + 1
             /\ \A h \in 1..Len(nodes) : SameFrame(made[h], nodes[h])
             /\ Front(made[Len(made)].constrs) = nodes[k + 1].constrs
             /\ [Last(made[Len(made)].constrs) EXCEPT !.col = <<"", 0>>] = c
    /\ \A i \in 1..Len(log) :
         /\ log[i][1] \in {"down", "up"} =>
              Front(nodes[log[i][3] + 1].constrs) = nodes[log[i][2] + 1].constrs
         /\ log[i][1] = "cut" =>
              \A c \in 0..(Len(nodes) - 1) :
                IsCutChild(i, c) => Front(nodes[c + 1].constrs) = nodes[log[i][2] + 1].constrs

\* a tree with a child made by branching and a child made by a lazy cut
C11_BranchAndCutChildren ==
  /\ pc = "loop"
  /\ \E i \in 1..Len(log) : log[i][1] = "down"
  /\ \E i \in 1..Len(log) : log[i][1] = "cut"

\* the terminal statuses
Terminal == {OPTIMAL, UNBOUNDED, INFEASIBLE}

\* the statuses in every state: a relaxed node holds a terminal status, a node
\* add_node makes starts at solving, and a tree that is already unbounded stays
\* so when another node's relaxation is taken in
StatusesInRange ==
  /\ code \in Terminal \cup {SOLVING}
  /\ pc = "done" => code \in Terminal
  /\ \A k \in 0..(Len(nodes) - 1) :
       /\ nodes[k + 1].code \in Terminal \cup {SOLVING}
       /\ Events("relax", k) # {} =>
            /\ nodes[k + 1].code \in Terminal
            /\ relax_node([Self EXCEPT !.code = UNBOUNDED, !.int_cb = <<>>],
                          k, nodes[k + 1]).code = UNBOUNDED
       /\ pc \in {"loop", "done"} =>
            \A c \in ChildConstrs(k) :
              Last(add_node(Self, k, c).nodes).code = SOLVING

\* one step: a terminal status of the tree or of a registered node stays
StatusesStay ==
  /\ code # SOLVING => code' = code
  /\ Len(nodes') >= Len(nodes)
  /\ \A k \in 1..Len(nodes) :
       nodes[k].code # SOLVING => nodes'[k].code = nodes[k].code

\* C12: during optimize() the status of every Node and of the Tree only moves
\* from solving to optimal, unbounded or infeasible; a terminal status is never
\* changed by a later step.
C12_StatusOnlyLeavesSolving == [](StatusesInRange) /\ [][StatusesStay]_vars

\* optimize() has ended with nodes in two different terminal statuses
C12_EndedWithTerminalNodes ==
  /\ pc = "done"
  /\ code \in Terminal
  /\ \E k \in 1..Len(nodes) : nodes[k].code = OPTIMAL
  /\ \E k \in 1..Len(nodes) : nodes[k].code = INFEASIBLE

\* column idx of tab holds a single 1 and 0 in every other row, objective row
\* included
IsBasicCol(tab, idx) ==
  \E i \in 1..(Len(tab) - 1) :
    /\ tab[i][idx] = One
    /\ \A h \in 1..Len(tab) : h # i => tab[h][idx] = Zero

\* the row of the single 1 of a basic column
BasicRow(tab, idx) ==
  CHOOSE i \in 1..(Len(tab) - 1) : tab[i][idx] = One

\* C13: after a relaxation ends optimal, every decision variable whose column
\* of the final tableau is basic holds the right-hand side of the row of its 1,
\* every other decision variable holds 0, and the values satisfy the
\* constraints of the node.
C13_ExtractedValuesAreBasicSolution ==
  \A k \in 0..(Len(nodes) - 1) :
    (Events("relax", k) # {} /\ nodes[k + 1].code = OPTIMAL) =>
      LET node == nodes[k + 1]
          tab == node.spx.tab
      IN  /\ \A idx \in 1..Len(node.kinds) :
               node.vals[idx] = IF IsBasicCol(tab, idx)
                                THEN Last(tab[BasicRow(tab, idx)])
                                ELSE Zero
          /\ SatisfiesAll(node.constrs, node.vals)

\* the bound constraints the variable of column j is due: var >= lb when
\* lb > 0, var <= ub when ub is given, var <= 1 for a binary variable
DueBounds(call, j) ==
  (IF call.lb # None /\ RPos(call.lb) THEN {VarConstr(j, j, ">=", call.lb)} ELSE {})
  \cup (IF call.ub # None THEN {VarConstr(j, j, "<=", call.ub)} ELSE {})
  \cup (IF call.type = "bin" THEN {VarConstr(j, j, "<=", One)} ELSE {})

\* C14: every call of add_var, whatever the kind, the bounds and the name,
\* creates the variable and returns it, and adds exactly the constraints
\* var >= lb when lb > 0, var <= ub when ub is finite and var <= 1 for a binary
\* variable.
C14_AddVarCreatesAndBounds ==
  pc \in {"adding", "raised"} =>
    \A i \in 1..Len(problem) :
      LET call == problem[i]
          j == Cardinality({h \in 1..i : problem[h].made})
      IN  /\ call.made
          /\ call.out # "KeyError"
          /\ {[call.added[h] EXCEPT !.col = <<"", 0>>] : h \in 1..Len(call.added)}
               = DueBounds(call, j)

\* every constraint row has a right-hand side >= 0 and a basic column with its
\* 1 in that row (a basic column has a single 1, so the columns of two rows
\* differ)
CanonicalForm(s) ==
  \A i \in 1..s.n_constrs :
    /\ RNonNeg(Last(s.tab[i]))
    /\ \E j \in 1..(Len(s.tab[i]) - 1) :
         /\ s.tab[i][j] = One
         /\ \A h \in 1..Len(s.tab) : h # i => s.tab[h][j] = Zero

\* C15: is_canonical() is true exactly when every constraint row has a
\* right-hand side >= 0 and a basic column of its own, a column being basic
\* when it holds a single 1 and 0 in every other row, the objective row
\* included.
C15_IsCanonicalIffCanonicalForm ==
  pc \in {"tab", "solved"} => (is_canonical(spx) <=> CanonicalForm(spx))

\* the coefficient an operand has for a key, 0 when the key is absent
CoefOf(operand, k) ==
  IF operand.kind = "num" THEN (IF k = "const" THEN operand.val ELSE 0)
  ELSE IF operand.kind = "var" THEN (IF k = operand.name THEN 1 ELSE 0)
  ELSE IF k \in DOMAIN operand.coeffs THEN operand.coeffs[k] ELSE 0

\* the keys an operand has
KeysOf(operand) ==
  IF operand.kind = "num" THEN {"const"}
  ELSE IF operand.kind = "var" THEN {operand.name}
  ELSE DOMAIN operand.coeffs

\* C16: a constraint built from lhs sense rhs stores, for every variable of
\* either side, its lhs coefficient minus its rhs coefficient, keeps no
\* 'const' entry in the coefficients, and stores b = rhs constant minus lhs
\* constant.
C16_ConstraintIsLhsMinusRhs ==
  (pc = "constr" /\ spx.built) =>
    LET lhs == Expr(Side(problem.a))
        rhs == Expr(Side(problem.b))
    IN  /\ DOMAIN spx.out.coeffs = (KeysOf(lhs) \cup KeysOf(rhs)) \ {"const"}
        /\ \A k \in DOMAIN spx.out.coeffs :
             spx.out.coeffs[k] = CoefOf(lhs, k) - CoefOf(rhs, k)
        /\ spx.out.b = CoefOf(rhs, "const") - CoefOf(lhs, "const")
        /\ spx.out.sense = spx.op

\* a constraint with a variable on both sides and a constant on both sides
C16_BothSidesBuilt ==
  /\ pc = "constr"
  /\ spx.built
  /\ problem.a.kind = "expr" /\ problem.b.kind = "expr"
  /\ {"x", "const"} \subseteq DOMAIN problem.a.coeffs \cap DOMAIN problem.b.coeffs
  /\ problem.a.coeffs["const"] # 0 /\ problem.b.coeffs["const"] # 0
  /\ problem.a.coeffs["x"] # 0 /\ problem.b.coeffs["x"] # 0

\* C17: a + b and a - b, for numbers, Vars and LinExprs in either order, return
\* a mapping over the keys of both operands whose entry for every key is the
\* sum, respectively the difference, of the operands' coefficients; a key whose
\* coefficients cancel stays with 0.
C17_SumAndDifferenceOfCoefficients ==
  pc = "expr" =>
    /\ DOMAIN spx.out = KeysOf(problem.a) \cup KeysOf(problem.b)
    /\ \A k \in DOMAIN spx.out :
         spx.out[k] = IF spx.op = "+"
                      THEN CoefOf(problem.a, k) + CoefOf(problem.b, k)
                      ELSE CoefOf(problem.a, k) - CoefOf(problem.b, k)

\* a Var minus a LinExpr that holds its name with coefficient 1: the name
\* stays with 0
C17_CancelledNameStays ==
  /\ pc = "expr"
  /\ spx.op = "-"
  /\ problem.a.kind = "var" /\ problem.b.kind = "expr"
  /\ problem.a.name \in DOMAIN problem.b.coeffs
  /\ problem.b.coeffs[problem.a.name] = 1
  /\ spx.out[problem.a.name] = 0

\* the columns of the tableau that hold a single 1 and 0 in every other
\* constraint row
UnitCols(s) ==
  {j \in 1..(Len(s.tab[1]) - 1) :
     \E i \in 1..s.n_constrs :
       /\ s.tab[i][j] = One
       /\ \A h \in 1..s.n_constrs : h # i => s.tab[h][j] = Zero}

\* the constraint rows that hold the 1 of such a column
UnitRows(s) ==
  {i \in 1..s.n_constrs :
     \E j \in UnitCols(s) : s.tab[i][j] = One}

\* C18: in every state of phase 2 of Simplex.solve(), from its start to the
\* setting of the terminal status, every constraint row has a right-hand side
\* >= 0 and the constraint rows have a basic column each, as many basic columns
\* as rows.  A column is taken for basic here already when it is a unit column
\* over the constraint rows.
C18_Phase2KeepsFeasibleBasis ==
  pc = "phase2" =>
    /\ \A i \in 1..spx.n_constrs : RNonNeg(Last(spx.tab[i]))
    /\ UnitRows(spx) = 1..spx.n_constrs

\* stepping through solve() ends as solve() does
PhasesAreSolve == pc = "solved" => spx = solve(Simplex_init(problem))

\* C19: every run of optimize() terminates after finitely many pivots and
\* branch steps.  The next pivot of the loop of stage 2 depends on the tableau
\* alone, so a loop that ends never comes back, after a pivot, to the tableau
\* stage 2 started from.
C19_PivotLoopNeverReturns ==
  (pc = "phase2" /\ spx.iterations > 0) => spx.tab # Simplex_init(problem).tab

\* the column of the variable a child of a branch step was bounded on
BranchedOn(child) ==
  CHOOSE j \in 1..Len(Last(child.constrs).a) : Last(child.constrs).a[j] = One

\* C20: branch() branches on the first variable, in creation order, among the
\* integer and binary variables whose relaxed value is fractional; a
\* continuous variable is never the branching variable.
C20_BranchesOnFirstFractionalInteger ==
  \A i \in 1..Len(log) :
    log[i][1] \in {"down", "up"} =>
      LET node == nodes[log[i][2] + 1]
          j == BranchedOn(nodes[log[i][3] + 1])
      IN  /\ node.kinds[j] \in {"int", "bin"}
          /\ ~IsInteger(node.vals[j])
          /\ \A h \in 1..(j - 1) :
               node.kinds[h] \in {"int", "bin"} => IsInteger(node.vals[h])

\* the events the step from this state to the next adds to the log
NewEvents == {i \in (Len(log) + 1)..Len(log') : TRUE}

\* one branch step on the node of key k: the node leaves the
\* candidates; with a relaxation objective strictly better than the incumbent
\* value the node gets one down child and one up child, new nodes that are
\* both relaxed within the step, and otherwise nothing but the candidates
\* changes
BranchStep(k) ==
  LET node == nodes[k + 1]
      kids == {i \in NewEvents : log'[i][1] \in {"down", "up"} /\ log'[i][2] = k}
      sides == {log'[i][1] : i \in kids}
      keys == {log'[i][3] : i \in kids}
  IN  /\ k \in candidates
      /\ k \notin candidates'
      /\ IF better(sense, node.objval, icmbval)
         THEN /\ Cardinality(kids) = 2
              /\ sides = {"down", "up"}
              /\ Cardinality(keys) = 2
              /\ \A c \in keys :
                   /\ c >= Len(nodes) /\ c < Len(nodes')
                   /\ \E i \in NewEvents : log'[i] = <<"relax", c>>
         ELSE /\ nodes' = nodes
              /\ candidates' = candidates \ {k}
              /\ icmbkey' = icmbkey /\ icmbval' = icmbval
              /\ code' = code

\* C21: branch(node) always removes the node from the candidate set; it
\* creates and relaxes exactly two children when the relaxation objective of
\* the node is strictly better than the incumbent value, and otherwise creates
\* no node and leaves the registry, the incumbent and the status unchanged.
\* Steps that end at the bound MaxNodes or MaxPivots are left out.
C21_BranchPrunesOrMakesTwo ==
  [][(pc = "loop" /\ code = SOLVING /\ candidates # {} /\ pc' # "halted")
       => BranchStep(log'[Len(log) + 1][2])]_vars

\* node a has a strictly better relaxation objective than node b
BetterNode(a, b) == better(sense, nodes[a + 1].objval, nodes[b + 1].objval)

WaitingAt(o, i) ==
  /\ \E r \in Events("relax", o) : r < i
  /\ nodes[o + 1].code = OPTIMAL
  /\ ~int_soln(nodes[o + 1])
  /\ \A b \in Events("branch", o) : b > i

PivotsAreSolve ==
  pc \in {"solved", "raised", "halted"} =>
    LET s == solve(Simplex_init(problem))
    IN  /\ s.raised = (pc = "raised")
        /\ s.capped = (pc = "halted")
        /\ pc = "solved" => s.tab = spx.tab /\ s.code = spx.code

\* the lowest-index structural column of most negative reduced cost
MostNegativeCol(s) ==
  LET cost == Last(s.tab)
  IN  CHOOSE k \in 1..s.n_vars :
        /\ \A j \in 1..s.n_vars : RLe(cost[k], cost[j])
        /\ \A j \in 1..(k - 1) : cost[j] # cost[k]

\* the constraint rows with a strictly positive entry in column e
PositiveRows(s, e) == {i \in 1..s.n_constrs : RPos(s.tab[i][e])}

\* the lowest-index row of PositiveRows of minimal RHS/entry
MinRatioRow(s, e) ==
  LET ratio(i) == RDiv(Last(s.tab[i]), s.tab[i][e])
  IN  CHOOSE i \in PositiveRows(s, e) :
        /\ \A o \in PositiveRows(s, e) : RLe(ratio(i), ratio(o))
        /\ \A o \in PositiveRows(s, e) : o < i => ratio(o) # ratio(i)

\* a default pivot from s to t was made as the claim says
DefaultPivotAsClaimed(s, t, done) ==
  LET e == MostNegativeCol(s)
  IN  /\ RNonNeg(Last(s.tab)[e]) = FALSE
      /\ PositiveRows(s, e) # {}
      /\ done =>
           LET l == MinRatioRow(s, e)
           IN  /\ t.iterations = s.iterations + 1
               /\ \A i \in 1..Len(t.tab) :
                    t.tab[i][e] = IF i = l THEN One ELSE Zero
               /\ t.tab[l] = [j \in 1..Len(s.tab[l]) |-> RDiv(s.tab[l][j], s.tab[l][e])]

\* C23: every default pivot of solve(), in phase 1 and in phase 2, enters the
\* lowest-index structural column of most negative reduced cost and leaves the
\* lowest-index constraint row of minimal RHS/entry among the rows with a
\* strictly positive entry in that column: the pivot element is strictly
\* positive, and after the pivot the entering column is 1 in the leaving row
\* and 0 in every other row, the objective rows included.  At the bound
\* MaxPivots the pivot is not made and only its pivot point is looked at.
C23_DefaultPivotPoint ==
  [][(pc \in {"phase1", "phase2"} /\ should_continue(spx))
       => DefaultPivotAsClaimed(spx, spx', pc' = pc)]_vars

\* a default pivot was made in phase 1 and the next is due on a row that is
\* not the first: a row of lower index is passed over
C23_PivotedInPhase1 ==
  /\ pc = "phase1"
  /\ spx.iterations >= 1
  /\ should_continue(spx)
  /\ MinRatioRow(spx, MostNegativeCol(spx)) > 1

\* the tableau of a node has a row for each constraint of the node and a
\* column for each of its decision, slack and surplus variables
TableauOf(node) ==
  /\ Len(node.tab) - 1 = Len(node.constrs)
  /\ \A i \in 1..Len(node.tab) : Len(node.tab[i]) - 1 = n_cols(node)

\* C24: whenever a node is relaxed, the tableau handed to the simplex engine
\* has exactly one row for each constraint in the constraint list of the node
\* and one column for each of its decision, slack and surplus variables, for
\* every order of the calls of add_var, add_constr and set_objective before
\* optimize().
C24_RelaxedOnOwnTableau ==
  \A k \in 0..(Len(nodes) - 1) : Events("relax", k) # {} => TableauOf(nodes[k + 1])

\* the objective row of a node is that of the expression and sense given to
\* set_objective: its coefficients on the decision variables, 0 on the slack
\* and surplus variables, and minus its constant term at the end, the whole
\* row negated for max
ObjectiveRowOf(node, e, sn) ==
  LET sign(v) == IF sn = "max" THEN RNeg(v) ELSE v
  IN  /\ Len(node.objective) = n_cols(node) + 1
      /\ \A j \in 1..Len(node.kinds) :
           node.objective[j] = sign(IF j <= Len(e.coeffs) THEN e.coeffs[j] ELSE Zero)
      /\ \A j \in (Len(node.kinds) + 1)..n_cols(node) : node.objective[j] = Zero
      /\ Last(node.objective) = sign(RNeg(IF e.hasconst THEN e.const ELSE Zero))

\* C25: every node of the search tree is relaxed against the objective function
\* of the root, its constant term included: the expression a child is given is
\* the expression set_objective was given, left as it was, and the objective row
\* of every relaxed node is the row of that expression.
C25_SameObjectiveInEveryNode ==
  /\ Len(nodes) > 1 => objexpr = problem.objexpr
  /\ \A k \in 0..(Len(nodes) - 1) :
       Events("relax", k) # {} => ObjectiveRowOf(nodes[k + 1], problem.objexpr, problem.sense)

====
